---- MODULE Spec2Model ----
(***************************************************************************)
(* Playback clock and audio scheduling of SwingSymphony (Studio,           *)
(* RhythmVisualizer, AudioService).                                        *)
(*                                                                         *)
(* Units.  One unit of time is 5 ms, on both clocks (performance.now and   *)
(* AudioContext.currentTime are read off the same wall clock `now`).       *)
(* A playback position ("song time") is counted in the same unit.  A       *)
(* speed is counted in quarters: 4 is 1.0x, 2 is 0.5x, 1 is 0.25x, so that *)
(* elapsed * speed / 4 is the code's elapsedSeconds * speed.  The wall     *)
(* clock advances in steps of FrameGrid units, which keeps every position  *)
(* the frame loop computes a whole number of units.                        *)
(***************************************************************************)
EXTENDS Integers, FiniteSets, Sequences, TLC

\* ------------------------------------------------------------------ bounds
\* The wall clock stops advancing at MaxNow.
MaxNow == 44
\* The user gives at most MaxCommands commands (play/pause, restart, speed,
\* next/previous model).
MaxCommands == 4
\* The wall clock of the end-to-end scenario stops here (2.8 s).
E2EMaxNow == 560

\* ------------------------------------------------------- program constants
\* audioContext.currentTime + 0.02: the 20 ms buffer, in units of 5 ms.
LOOKAHEAD == 4
\* Speeds are counted in quarters: the slowest option of the <select> is 0.25x.
SpeedDenominator == 4
\* The <select> of the speed: 1.0x, 0.5x, 0.25x, in quarters.
SpeedOptions == {4, 2, 1}
\* One wall-clock step, 20 ms: the instants at which a frame callback, a command
\* or a promise resolution can run.  A whole number of SpeedDenominator units, so
\* that elapsed * speed / SpeedDenominator is exact.
FrameGrid == SpeedDenominator
\* useState(1): the initial speed, 1.0x, in quarters.
InitialSpeed == 4

\* useState(30): the initial volume, in percent.
InitialVolume == 30
\* initAudio: masterGain.gain.value = 0.3, in hundredths.
DefaultGain == 30

\* A ref that holds `undefined`.
Undefined == 0 - 1
\* JavaScript's !x for a ref holding a number or undefined.
Falsy(x) == x = Undefined \/ x = 0

\* -------------------------------------------------------------- recordings
\* The recordings the API serves (SwingData: duration and rhythmTrack).
\* intensity is in tenths.  "B" holds a node with intensity 0 and a node
\* whose timestamp lies beyond the duration.
ModelCodes == <<"A", "B">>

\* PRO_SWING_DATA of the algorithm test app: duration 2.5 s, nodes at 0.5, 0.9,
\* 1.2 and 1.4 s (units of 5 ms, intensity in tenths).
ProSwingData ==
  [duration |-> 500,
   rhythmTrack |-> << [id |-> "p1", timestamp |-> 100, intensity |-> 8,  type |-> "KICK"],
                      [id |-> "p2", timestamp |-> 180, intensity |-> 9,  type |-> "BASS"],
                      [id |-> "p3", timestamp |-> 240, intensity |-> 9,  type |-> "SNARE"],
                      [id |-> "p4", timestamp |-> 280, intensity |-> 10, type |-> "CRASH"] >>]

\* A recording without rhythm nodes.
EmptyData == [duration |-> 16, rhythmTrack |-> << >>]

Recording(code) ==
  IF code = "PRO" THEN ProSwingData
  ELSE IF code = "EMPTY" THEN EmptyData
  ELSE IF code = "A"
  THEN [duration |-> 16,
        rhythmTrack |-> << [id |-> "a1", timestamp |-> 6,  intensity |-> 8,  type |-> "KICK"],
                           [id |-> "a2", timestamp |-> 12, intensity |-> 10, type |-> "CRASH"] >>]
  ELSE [duration |-> 8,
        rhythmTrack |-> << [id |-> "b1", timestamp |-> 4,  intensity |-> 0, type |-> "KICK"],
                           [id |-> "b2", timestamp |-> 10, intensity |-> 9, type |-> "SNARE"] >>]

Range(seq) == {seq[i] : i \in 1..Len(seq)}

VARIABLES
  now,              \* the wall clock (performance.now, AudioContext.currentTime)
  \* Studio: state
  data, isPlaying, currentTime, speed, isLoadingModel, availableModels,
  currentModelIndex,
  volume,           \* the volume state, in percent
  mounted,          \* Studio is the view the App shows
  pendingLoad,      \* the model code of the getModelData call in flight, or "none"
  \* Studio: refs
  startTimeRef, speedRef, durationRef,
  frames,           \* number of animate callbacks the browser holds
  refLive,          \* requestRef.current names one of them
  \* RhythmVisualizer: refs
  scheduledRef, vizStartTimeRef,
  crashed,          \* an effect threw: React has unmounted the component tree
  \* AudioService
  audioAvailable,   \* new AudioContext() succeeds in this browser
  audioContext,     \* the AudioContext has been created
  masterGain,       \* masterGain.gain.value in hundredths, Undefined while null
  contextsCreated,  \* number of AudioContexts (and master gain nodes) constructed
  scheduledSounds,  \* Map id -> audioTime, as a set of <<id, audioTime>>
  currentSpeed,
  \* the audio engine: voices started with osc.start(time), time not yet reached
  engine,
  firedNow,         \* the voices whose start time the last clock step reached
  sounding,         \* the voices that have started and not yet reached their stop time
  \* observation
  commands,         \* number of user commands so far
  commitNo,         \* number of scheduleSounds calls so far
  fromPosition,     \* the position at which the present play run was started
  speedChanged      \* the speed was changed during the present play run

vars == << now, data, isPlaying, currentTime, speed, isLoadingModel, availableModels,
           currentModelIndex, pendingLoad, startTimeRef, speedRef, durationRef,
           frames, refLive, scheduledRef, vizStartTimeRef, crashed, audioAvailable,
           audioContext, scheduledSounds, currentSpeed, engine, firedNow, commands,
           commitNo, fromPosition, speedChanged, volume, mounted, masterGain,
           contextsCreated, sounding >>

\* ------------------------------------------------------------ AudioService
\* An audio time without the 20 ms buffer.
AudioTimeNoBuffer(sound, startTime, t0) == t0 + (sound.time - startTime)

\* scheduleSounds' forEach body: the audio time of one sound.
AudioTime(sound, startTime, t0) == (t0 + LOOKAHEAD) + (sound.time - startTime)

\* RhythmVisualizer's nodes.map: node.intensity || 0.7.
ToScheduledSounds(nodes) ==
  [i \in 1..Len(nodes) |->
     [id |-> nodes[i].id, type |-> nodes[i].type, time |-> nodes[i].timestamp,
      intensity |-> IF nodes[i].intensity = 0 THEN 7 ELSE nodes[i].intensity]]

\* A scheduleSounds without the test audioTime > currentTime: every sound is booked.
BookedUnfiltered(sounds, startTime, t0) == Range(sounds)

\* The sounds scheduleSounds books: those with audioTime > currentTime.
Booked(sounds, startTime, t0) ==
  {s \in Range(sounds) : AudioTime(s, startTime, t0) > t0}

\* The voices scheduleSound starts on the engine for one commit.
Voices(sounds, startTime, t0, spd, run) ==
  { [id |-> s.id, type |-> s.type, ts |-> s.time, intensity |-> s.intensity,
     time |-> AudioTime(s, startTime, t0), p0 |-> startTime, t0 |-> t0,
     speed |-> spd, run |-> run] : s \in Booked(sounds, startTime, t0) }

\* scheduledSounds after scheduleSounds: cleared, then one entry per booked sound.
ScheduledMap(sounds, startTime, t0) ==
  { <<s.id, AudioTime(s, startTime, t0)>> : s \in Booked(sounds, startTime, t0) }

\* scheduleKick: volume = 0.3 + intensity * 0.7, in hundredths, and
\* baseFreq = 150 * (1 + intensity * 0.5), in half hertz (intensity in tenths).
\* The frequency is baseFreq * getPitchShift(), the pitch shift of the
\* currentSpeed at the commit (the voice's speed).
KickVolume(intensity) == 30 + intensity * 7
KickBaseFreq(intensity) == 300 + intensity * 15

\* A clearScheduledSounds that stops the voices that sound.
SoundingCut(snd) == {}

\* clearScheduledSounds: the map is emptied; nothing is sent to the engine,
\* neither to the voices still pending nor to those that sound.
ClearedMap == {}
EngineAfterClear(eng) == eng
SoundingAfterClear(snd) == snd

\* An initAudio without its guard: every call makes a gain node at 0.3.
InitAudioGainAlways(ctx, gain) == DefaultGain

\* initAudio: the context and the master gain are created only if there is no
\* context yet; the gain starts at 0.3.
InitAudioGain(ctx, gain) == IF ctx THEN gain ELSE DefaultGain
InitAudioContexts(ctx, n) == IF ctx THEN n ELSE n + 1

\* setVolume(v), v in hundredths: ignored while masterGain is null, else the
\* gain becomes v clamped to [0, 1].
SetVolumeGain(gain, v) ==
  IF gain = Undefined THEN gain
  ELSE IF v < 0 THEN 0 ELSE IF v > 100 THEN 100 ELSE v

\* osc.stop / noise.stop: the length of a voice, 0.5 s for KICK and CRASH, 0.4 s
\* for BASS, 0.2 s for SNARE.
Decay(type) ==
  IF type = "BASS" THEN 80 ELSE IF type = "SNARE" THEN 40 ELSE 100

\* ------------------------------------------------------------------- Init
\* Studio has just mounted, some time after the page was loaded: the timestamp a
\* frame callback receives is positive, never the falsy 0.
Init ==
  /\ now = FrameGrid
  /\ data = ModelCodes[1]
  /\ isPlaying = FALSE
  /\ currentTime = 0
  /\ speed = InitialSpeed
  /\ isLoadingModel = FALSE
  /\ availableModels = << >>
  /\ currentModelIndex = 0
  /\ pendingLoad = "none"
  /\ startTimeRef = Undefined
  /\ speedRef = InitialSpeed
  /\ durationRef = Recording(ModelCodes[1]).duration
  /\ frames = 0
  /\ refLive = FALSE
  /\ scheduledRef = FALSE
  /\ vizStartTimeRef = 0
  /\ crashed = FALSE
  /\ audioAvailable \in BOOLEAN
  /\ audioContext = FALSE
  /\ masterGain = Undefined
  /\ contextsCreated = 0
  /\ sounding = {}
  /\ volume = InitialVolume
  /\ mounted = TRUE
  /\ scheduledSounds = {}
  /\ currentSpeed = InitialSpeed
  /\ engine = {}
  /\ firedNow = {}
  /\ commands = 0
  /\ commitNo = 0
  /\ fromPosition = 0
  /\ speedChanged = FALSE

\* --------------------------------------------------------------- effects
\* A cancelAnimationFrame that cancels nothing.
FramesKept(fr, live) == fr

\* cancelAnimationFrame(requestRef.current), with fr callbacks held by the
\* browser: the number of callbacks left.
FramesAfterCancel(fr, live) == IF live THEN fr - 1 ELSE fr

\* RhythmVisualizer's scheduling effect (deps [isPlaying, nodes]) for the props
\* of the render: playing, time, and the recording shown.
VisualizerEffect(playing, time, code) ==
  LET sounds == ToScheduledSounds(Recording(code).rhythmTrack) IN
  IF playing /\ ~scheduledRef
  THEN /\ audioContext' = TRUE
       /\ masterGain' = InitAudioGain(audioContext, masterGain)
       /\ contextsCreated' = InitAudioContexts(audioContext, contextsCreated)
       /\ scheduledSounds' = ScheduledMap(sounds, time, now)
       /\ engine' = EngineAfterClear(engine)
                      \cup Voices(sounds, time, now, currentSpeed, commitNo + 1)
       /\ sounding' = SoundingAfterClear(sounding)
       /\ commitNo' = commitNo + 1
       /\ scheduledRef' = TRUE
       /\ vizStartTimeRef' = time
  ELSE IF ~playing
  THEN /\ scheduledSounds' = ClearedMap
       /\ engine' = EngineAfterClear(engine)
       /\ sounding' = SoundingAfterClear(sounding)
       /\ scheduledRef' = FALSE
       /\ UNCHANGED << audioContext, masterGain, contextsCreated, commitNo,
                       vizStartTimeRef >>
  ELSE UNCHANGED << audioContext, masterGain, contextsCreated, scheduledSounds, engine,
                  sounding, commitNo, scheduledRef,
                    vizStartTimeRef >>

\* As Throws, with a scheduleSounds that also throws on an empty list of sounds.
ThrowsOnEmpty(playing) ==
  /\ playing /\ ~scheduledRef
  /\ ~audioAvailable \/ Recording(data).rhythmTrack = << >>

\* As Throws, with a clearScheduledSounds that also throws while no AudioContext
\* exists.
ThrowsOnCancel(playing) ==
  \/ playing /\ ~scheduledRef /\ ~audioAvailable
  \/ ~playing /\ ~audioContext

\* initAudio throws: the scheduling effect of a render with these props calls
\* scheduleSounds, and the AudioContext cannot be constructed.
Throws(playing) == playing /\ ~scheduledRef /\ ~audioAvailable

\* The exception leaves scheduleSounds and the effect (nothing catches it, there
\* is no error boundary): React unmounts the tree, and the cleanup of Studio's
\* play effect cancels the frame callback.  The statements after the throw
\* (clearScheduledSounds, scheduledRef.current = true) are not reached.
ErrorUnmount ==
  /\ crashed' = TRUE
  /\ frames' = 0
  /\ refLive' = FALSE
  /\ startTimeRef' = Undefined
  /\ UNCHANGED << audioContext, masterGain, contextsCreated, scheduledSounds, engine,
                  sounding, commitNo, scheduledRef,
                  vizStartTimeRef >>

\* A render that changes neither isPlaying nor nodes: the effect does not run.
NoVisualizerEffect ==
  UNCHANGED << audioContext, masterGain, contextsCreated, scheduledSounds, engine,
                  sounding, commitNo, scheduledRef,
               vizStartTimeRef >>

\* A play effect that requests the frame callback when playing starts but does
\* not cancel it when playing stops.
PlayEffectNoCancel(playing, fr, live) ==
  IF playing
  THEN /\ startTimeRef' = Undefined
       /\ frames' = FramesAfterCancel(fr, live) + 1
       /\ refLive' = TRUE
  ELSE /\ startTimeRef' = Undefined
       /\ frames' = fr
       /\ refLive' = live

\* Studio's play effect (deps [isPlaying]): the cleanup of the previous run of the
\* effect, then its body, with fr callbacks held by the browser.
PlayEffect(playing, fr, live) ==
  IF playing
  THEN /\ startTimeRef' = Undefined
       /\ frames' = FramesAfterCancel(fr, live) + 1
       /\ refLive' = TRUE
  ELSE /\ startTimeRef' = Undefined
       /\ frames' = FramesAfterCancel(fr, live)
       /\ refLive' = FALSE

\* ---------------------------------------------------------------- actions
\* togglePlay, the render it causes and the effects of that render.
TogglePlay ==
  /\ commands < MaxCommands
  /\ commands' = commands + 1
  /\ ~crashed /\ mounted
  /\ isPlaying' = ~isPlaying
  /\ IF Throws(~isPlaying)
     THEN ErrorUnmount
     ELSE /\ VisualizerEffect(~isPlaying, currentTime, data)
          /\ PlayEffect(~isPlaying, frames, refLive)
          /\ UNCHANGED crashed
  /\ fromPosition' = (IF ~isPlaying THEN currentTime ELSE fromPosition)
  /\ speedChanged' = (IF ~isPlaying THEN FALSE ELSE speedChanged)
  /\ firedNow' = {}
  /\ UNCHANGED << now, data, currentTime, speed, isLoadingModel, availableModels,
                  currentModelIndex, pendingLoad, speedRef, durationRef, currentSpeed,
                  audioAvailable, volume, mounted >>

\* restartPlayback (the Space key), its render and effects.
RestartPlayback ==
  /\ commands < MaxCommands
  /\ commands' = commands + 1
  /\ ~crashed /\ mounted
  /\ currentTime' = 0
  /\ isPlaying' = TRUE
  /\ IF isPlaying
     THEN /\ startTimeRef' = Undefined
          /\ NoVisualizerEffect
          /\ UNCHANGED << frames, refLive, crashed >>
     ELSE IF Throws(TRUE)
     THEN ErrorUnmount
     ELSE /\ VisualizerEffect(TRUE, 0, data)
          /\ PlayEffect(TRUE, frames, refLive)
          /\ UNCHANGED crashed
  /\ fromPosition' = 0
  /\ speedChanged' = FALSE
  /\ firedNow' = {}
  /\ UNCHANGED << now, data, speed, isLoadingModel, availableModels,
                  currentModelIndex, pendingLoad, speedRef, durationRef, currentSpeed,
                  audioAvailable, volume, mounted >>

\* handleSpeedChange(newSpeed) and the effect that copies speed into speedRef.
HandleSpeedChange(newSpeed) ==
  /\ commands < MaxCommands
  /\ commands' = commands + 1
  /\ ~crashed /\ mounted
  /\ newSpeed # speed
  /\ speed' = newSpeed
  /\ currentSpeed' = newSpeed
  /\ speedRef' = newSpeed
  /\ speedChanged' = (speedChanged \/ isPlaying)
  /\ firedNow' = {}
  /\ UNCHANGED << now, data, isPlaying, currentTime, isLoadingModel, availableModels,
                  currentModelIndex, pendingLoad, startTimeRef, durationRef, frames,
                  refLive, scheduledRef, vizStartTimeRef, audioContext, masterGain,
                  contextsCreated,
                  scheduledSounds, engine, sounding, commitNo, fromPosition, crashed,
                  audioAvailable, volume, mounted >>

\* handleVolumeChange(newVolume), newVolume in percent: setVolume(newVolume) and
\* audioService.setVolume(newVolume / 100).
HandleVolumeChange(newVolume) ==
  /\ commands < MaxCommands
  /\ commands' = commands + 1
  /\ ~crashed /\ mounted
  /\ volume' = newVolume
  /\ masterGain' = SetVolumeGain(masterGain, newVolume)
  /\ firedNow' = {}
  /\ UNCHANGED << now, data, isPlaying, currentTime, speed, isLoadingModel,
                  availableModels, currentModelIndex, pendingLoad, startTimeRef,
                  speedRef, durationRef, frames, refLive, scheduledRef,
                  vizStartTimeRef, crashed, audioAvailable, audioContext,
                  scheduledSounds, currentSpeed, engine, commitNo, fromPosition,
                  speedChanged, mounted, contextsCreated, sounding >>

\* animate's newTime for a callback at `time`.
NewTime(time, start, spd) == ((time - start) * spd) \div SpeedDenominator

\* animate(time), one frame callback, with the render and effects it causes.
\* viaRef: the callback is the one requestRef.current names.
Animate(viaRef) ==
  /\ ~crashed /\ mounted
  /\ frames > 0
  /\ IF viaRef THEN refLive ELSE frames > (IF refLive THEN 1 ELSE 0)
  /\ LET start   == IF Falsy(startTimeRef) THEN now ELSE startTimeRef
         newTime == NewTime(now, start, speedRef)
         left    == frames - 1
         live    == refLive /\ ~viaRef
     IN IF newTime >= durationRef
        THEN /\ currentTime' = durationRef
             /\ isPlaying' = FALSE
             /\ IF isPlaying
                THEN /\ VisualizerEffect(FALSE, durationRef, data)
                     /\ PlayEffect(FALSE, left, live)
                ELSE /\ startTimeRef' = Undefined
                     /\ frames' = left
                     /\ refLive' = live
                     /\ NoVisualizerEffect
        ELSE /\ currentTime' = newTime
             /\ startTimeRef' = start
             /\ frames' = left + 1
             /\ refLive' = TRUE
             /\ NoVisualizerEffect
             /\ UNCHANGED isPlaying
  /\ firedNow' = {}
  /\ UNCHANGED commands
  /\ UNCHANGED << now, data, speed, isLoadingModel, availableModels,
                  currentModelIndex, pendingLoad, speedRef, durationRef, currentSpeed,
                  fromPosition, speedChanged, crashed, audioAvailable, volume, mounted >>

\* The wall clock advances by one step; the engine starts every voice whose
\* start time is reached.
AdvanceBy(step, max) ==
  /\ now + step <= max
  /\ now' = now + step
  /\ firedNow' = {v \in engine : v.time <= now + step}
  /\ engine' = {v \in engine : v.time > now + step}
  /\ sounding' = {v \in sounding \cup
                          {[id |-> w.id, type |-> w.type, time |-> w.time] :
                             w \in {x \in engine : x.time <= now + step}} :
                    now + step < v.time + Decay(v.type)}
  /\ UNCHANGED commands
  /\ UNCHANGED << data, isPlaying, currentTime, speed, isLoadingModel, availableModels,
                  currentModelIndex, pendingLoad, startTimeRef, speedRef, durationRef,
                  frames, refLive, scheduledRef, vizStartTimeRef, audioContext, masterGain,
                  contextsCreated,
                  scheduledSounds, currentSpeed, commitNo, fromPosition, speedChanged,
                  crashed, audioAvailable, volume, mounted >>

Advance == AdvanceBy(FrameGrid, MaxNow)

\* models.indexOf(code), 0-based, -1 when absent.
IndexOf(models, code) ==
  IF \E i \in 1..Len(models) : models[i] = code
  THEN (CHOOSE i \in 1..Len(models) : models[i] = code) - 1
  ELSE 0 - 1

\* The mount effect's listModels() resolves.
ListModelsDone ==
  /\ ~crashed /\ mounted
  /\ availableModels = << >>
  /\ availableModels' = ModelCodes
  /\ currentModelIndex' = (IF IndexOf(ModelCodes, data) >= 0
                           THEN IndexOf(ModelCodes, data) ELSE currentModelIndex)
  /\ firedNow' = {}
  /\ UNCHANGED commands
  /\ UNCHANGED << now, data, isPlaying, currentTime, speed, isLoadingModel,
                  pendingLoad, startTimeRef, speedRef, durationRef, frames, refLive,
                  scheduledRef, vizStartTimeRef, audioContext, masterGain,
                  contextsCreated, scheduledSounds,
                  currentSpeed, engine, sounding, commitNo, fromPosition, speedChanged,
                  crashed, audioAvailable, volume, mounted >>

\* loadModelByIndex(index) up to its await, with the render and effects.
LoadModelByIndex(index) ==
  /\ commands < MaxCommands
  /\ commands' = commands + 1
  /\ ~crashed /\ mounted
  /\ Len(availableModels) # 0
  /\ ~isLoadingModel
  /\ isLoadingModel' = TRUE
  /\ isPlaying' = FALSE
  /\ currentTime' = 0
  /\ pendingLoad' = availableModels[index + 1]
  /\ IF isPlaying
     THEN /\ VisualizerEffect(FALSE, 0, data)
          /\ PlayEffect(FALSE, frames, refLive)
     ELSE /\ NoVisualizerEffect
          /\ UNCHANGED << startTimeRef, frames, refLive >>
  /\ firedNow' = {}
  /\ UNCHANGED << now, data, speed, availableModels, currentModelIndex, speedRef,
                  durationRef, currentSpeed, fromPosition, speedChanged, crashed,
                  audioAvailable, volume, mounted >>

\* loadNextModel.
LoadNextModel ==
  /\ Len(availableModels) # 0
  /\ LoadModelByIndex((currentModelIndex + 1) % Len(availableModels))

\* loadPreviousModel.
LoadPreviousModel ==
  /\ Len(availableModels) # 0
  /\ LoadModelByIndex((currentModelIndex - 1 + Len(availableModels)) % Len(availableModels))

\* getModelData resolves: loadModelByIndex after its await, with the render and
\* the effects of the new data (durationRef, the visualizer's nodes).
LoadDone ==
  /\ ~crashed /\ mounted
  /\ pendingLoad # "none"
  /\ data' = pendingLoad
  /\ currentModelIndex' = IndexOf(availableModels, pendingLoad)
  /\ isLoadingModel' = FALSE
  /\ pendingLoad' = "none"
  /\ durationRef' = Recording(pendingLoad).duration
  /\ IF Throws(isPlaying)
     THEN ErrorUnmount
     ELSE /\ VisualizerEffect(isPlaying, currentTime, pendingLoad)
          /\ UNCHANGED << startTimeRef, frames, refLive, crashed >>
  /\ firedNow' = {}
  /\ UNCHANGED commands
  /\ UNCHANGED << now, isPlaying, currentTime, speed, availableModels, speedRef,
                  currentSpeed, fromPosition, speedChanged, audioAvailable, volume, mounted >>

\* getModelData rejects: the catch and finally of loadModelByIndex.
LoadFail ==
  /\ ~crashed /\ mounted
  /\ pendingLoad # "none"
  /\ isLoadingModel' = FALSE
  /\ pendingLoad' = "none"
  /\ firedNow' = {}
  /\ UNCHANGED commands
  /\ UNCHANGED << now, data, isPlaying, currentTime, speed, availableModels,
                  currentModelIndex, startTimeRef, speedRef, durationRef, frames,
                  refLive, scheduledRef, vizStartTimeRef, audioContext, masterGain,
                  contextsCreated,
                  scheduledSounds, currentSpeed, engine, sounding, commitNo, fromPosition,
                  speedChanged, crashed, audioAvailable, volume, mounted >>

\* onRestart / onBattle: the App shows another view and Studio unmounts.  The
\* cleanup of the play effect cancels the frame callback; the scheduling effect
\* of RhythmVisualizer returns no cleanup, so nothing reaches the AudioService.
LeaveStudio ==
  /\ commands < MaxCommands
  /\ commands' = commands + 1
  /\ ~crashed /\ mounted
  /\ mounted' = FALSE
  /\ frames' = FramesAfterCancel(frames, refLive)
  /\ refLive' = FALSE
  /\ firedNow' = {}
  /\ UNCHANGED << now, data, isPlaying, currentTime, speed, isLoadingModel,
                  availableModels, currentModelIndex, pendingLoad, startTimeRef,
                  speedRef, durationRef, scheduledRef, vizStartTimeRef, crashed,
                  audioAvailable, audioContext, scheduledSounds, currentSpeed, engine,
                  commitNo, fromPosition, speedChanged, volume, masterGain,
                  contextsCreated, sounding >>

\* BattleMode's onBack: Studio mounts again with fresh state and refs, and its
\* mount effects run: setVolume and setSpeed with the initial values, and the
\* scheduling effect of the new RhythmVisualizer with isPlaying false.
ReturnToStudio ==
  /\ commands < MaxCommands
  /\ commands' = commands + 1
  /\ ~crashed /\ ~mounted
  /\ mounted' = TRUE
  /\ data' = ModelCodes[1]
  /\ isPlaying' = FALSE
  /\ currentTime' = 0
  /\ speed' = InitialSpeed
  /\ volume' = InitialVolume
  /\ isLoadingModel' = FALSE
  /\ availableModels' = << >>
  /\ currentModelIndex' = 0
  /\ pendingLoad' = "none"
  /\ startTimeRef' = Undefined
  /\ speedRef' = InitialSpeed
  /\ durationRef' = Recording(ModelCodes[1]).duration
  /\ refLive' = FALSE
  /\ scheduledRef' = FALSE
  /\ vizStartTimeRef' = 0
  /\ masterGain' = SetVolumeGain(masterGain, InitialVolume)
  /\ currentSpeed' = InitialSpeed
  /\ scheduledSounds' = ClearedMap
  /\ engine' = EngineAfterClear(engine)
  /\ sounding' = SoundingAfterClear(sounding)
  /\ fromPosition' = 0
  /\ speedChanged' = FALSE
  /\ firedNow' = {}
  /\ UNCHANGED << now, frames, crashed, audioAvailable, audioContext, commitNo,
                  contextsCreated >>

Next ==
  \/ TogglePlay
  \/ RestartPlayback
  \/ \E s \in SpeedOptions : HandleSpeedChange(s)
  \/ \E viaRef \in BOOLEAN : Animate(viaRef)
  \/ Advance
  \/ ListModelsDone
  \/ LoadNextModel
  \/ LoadPreviousModel
  \/ LoadDone
  \/ LoadFail
  \/ LeaveStudio
  \/ ReturnToStudio

Spec == Init /\ [][Next]_vars

\* setSpeed as a service call: handleSpeedChange and AudioService.setSpeed take
\* any number, not only the values the <select> offers.  Speeds in quarters:
\* the options, 0 and -1.0.
SpeedInputs == SpeedOptions \cup {0, 0 - InitialSpeed}

NextSetSpeed ==
  \/ \E v \in SpeedInputs : HandleSpeedChange(v)
  \/ TogglePlay
  \/ \E viaRef \in BOOLEAN : Animate(viaRef)
  \/ Advance

SpecSetSpeed == Init /\ [][NextSetSpeed]_vars

\* The volume as a service call: handleVolumeChange and AudioService.setVolume
\* take any number.  In percent: mute, 80 %, and one value on each side of the
\* range of the slider.
VolumeInputs == {0 - 10, 0, 80, 120}

NextVolume ==
  \/ \E v \in VolumeInputs : HandleVolumeChange(v)
  \/ TogglePlay
  \/ RestartPlayback
  \/ \E s \in SpeedOptions : HandleSpeedChange(s)
  \/ \E viaRef \in BOOLEAN : Animate(viaRef)
  \/ Advance

SpecVolume == Init /\ [][NextVolume]_vars

\* The algorithm test app with PRO_SWING_DATA at 1.0x: one play from position 0,
\* frames every 100 ms.  Its togglePlay, animate, play effect and visualizer
\* effect are those of Studio; animate reads data.duration, which durationRef
\* holds here.
E2EFrame == 5 * FrameGrid

InitE2E ==
  /\ now = FrameGrid
  /\ data = "PRO"
  /\ isPlaying = FALSE
  /\ currentTime = 0
  /\ speed = InitialSpeed
  /\ isLoadingModel = FALSE
  /\ availableModels = << >>
  /\ currentModelIndex = 0
  /\ pendingLoad = "none"
  /\ startTimeRef = Undefined
  /\ speedRef = InitialSpeed
  /\ durationRef = ProSwingData.duration
  /\ frames = 0
  /\ refLive = FALSE
  /\ scheduledRef = FALSE
  /\ vizStartTimeRef = 0
  /\ crashed = FALSE
  /\ audioAvailable = TRUE
  /\ audioContext = FALSE
  /\ masterGain = Undefined
  /\ contextsCreated = 0
  /\ sounding = {}
  /\ volume = InitialVolume
  /\ mounted = TRUE
  /\ scheduledSounds = {}
  /\ currentSpeed = InitialSpeed
  /\ engine = {}
  /\ firedNow = {}
  /\ commands = 0
  /\ commitNo = 0
  /\ fromPosition = 0
  /\ speedChanged = FALSE

PlayFromStart == commitNo = 0 /\ TogglePlay

AdvanceE2E == AdvanceBy(E2EFrame, E2EMaxNow)

NextE2E ==
  \/ PlayFromStart
  \/ \E viaRef \in BOOLEAN : Animate(viaRef)
  \/ AdvanceE2E

SpecE2E == InitE2E /\ [][NextE2E]_vars

\* switchAlgorithm(algo) of the algorithm test app, to another algorithm:
\* renderVisualizer returns a component of another type, so the visualizer shown
\* unmounts (its scheduling effect has no cleanup) and the new one mounts with a
\* fresh scheduledRef and runs its scheduling effect with the present isPlaying
\* and currentTime.
SwitchAlgorithm ==
  /\ commands < MaxCommands
  /\ commands' = commands + 1
  /\ ~crashed /\ mounted
  /\ LET sounds == ToScheduledSounds(Recording(data).rhythmTrack) IN
     IF isPlaying
     THEN /\ audioContext' = TRUE
          /\ masterGain' = InitAudioGain(audioContext, masterGain)
          /\ contextsCreated' = InitAudioContexts(audioContext, contextsCreated)
          /\ scheduledSounds' = ScheduledMap(sounds, currentTime, now)
          /\ engine' = EngineAfterClear(engine)
                         \cup Voices(sounds, currentTime, now, currentSpeed, commitNo + 1)
          /\ sounding' = SoundingAfterClear(sounding)
          /\ commitNo' = commitNo + 1
          /\ scheduledRef' = TRUE
          /\ vizStartTimeRef' = currentTime
     ELSE /\ scheduledSounds' = ClearedMap
          /\ engine' = EngineAfterClear(engine)
          /\ sounding' = SoundingAfterClear(sounding)
          /\ scheduledRef' = FALSE
          /\ UNCHANGED << audioContext, masterGain, contextsCreated, commitNo,
                          vizStartTimeRef >>
  /\ firedNow' = {}
  /\ UNCHANGED << now, data, isPlaying, currentTime, speed, isLoadingModel,
                  availableModels, currentModelIndex, pendingLoad, startTimeRef,
                  speedRef, durationRef, frames, refLive, crashed, audioAvailable,
                  currentSpeed, fromPosition, speedChanged, volume, mounted >>

\* The algorithm test app with PRO_SWING_DATA: play/pause, restart, switches of
\* the visualizer; commands and frame callbacks come at instants 0.5 s apart.
AlgoFrame == 25 * FrameGrid

AdvanceAlgo == AdvanceBy(AlgoFrame, E2EMaxNow)

NextAlgo ==
  \/ TogglePlay
  \/ RestartPlayback
  \/ SwitchAlgorithm
  \/ \E viaRef \in BOOLEAN : Animate(viaRef)
  \/ AdvanceAlgo

SpecAlgo == InitE2E /\ [][NextAlgo]_vars

\* Studio with a recording that has no rhythm nodes.
InitEmpty ==
  /\ now = FrameGrid
  /\ data = "EMPTY"
  /\ isPlaying = FALSE
  /\ currentTime = 0
  /\ speed = InitialSpeed
  /\ isLoadingModel = FALSE
  /\ availableModels = << >>
  /\ currentModelIndex = 0
  /\ pendingLoad = "none"
  /\ startTimeRef = Undefined
  /\ speedRef = InitialSpeed
  /\ durationRef = EmptyData.duration
  /\ frames = 0
  /\ refLive = FALSE
  /\ scheduledRef = FALSE
  /\ vizStartTimeRef = 0
  /\ crashed = FALSE
  /\ audioAvailable \in BOOLEAN
  /\ audioContext = FALSE
  /\ masterGain = Undefined
  /\ contextsCreated = 0
  /\ sounding = {}
  /\ volume = InitialVolume
  /\ mounted = TRUE
  /\ scheduledSounds = {}
  /\ currentSpeed = InitialSpeed
  /\ engine = {}
  /\ firedNow = {}
  /\ commands = 0
  /\ commitNo = 0
  /\ fromPosition = 0
  /\ speedChanged = FALSE

NextEmpty ==
  \/ TogglePlay
  \/ RestartPlayback
  \/ \E viaRef \in BOOLEAN : Animate(viaRef)
  \/ Advance

SpecEmpty == InitEmpty /\ [][NextEmpty]_vars

\* ------------------------------------------------------------- properties
Abs(x) == IF x < 0 THEN 0 - x ELSE x
Min(a, b) == IF a < b THEN a ELSE b

AnimateStep == \E viaRef \in BOOLEAN : Animate(viaRef)
SpeedStep == \E s \in SpeedOptions : HandleSpeedChange(s)

\* A voice is booked where the translation law puts it:
\* time = t0 + LOOKAHEAD + (ts - p0) / speed, with the speed in quarters.
TranslationLaw(v) ==
  (v.time - v.t0 - LOOKAHEAD) * v.speed = SpeedDenominator * (v.ts - v.p0)

\* SpeedDenominator times the position the frame loop shows at the instant t: the frozen
\* currentTime when paused or before the run's first frame, and animate's
\* formula, clamped at the duration, once the run is anchored.
VisualPos4(t) ==
  IF isPlaying /\ ~Falsy(startTimeRef)
  THEN Min((t - startTimeRef) * speedRef, SpeedDenominator * durationRef)
  ELSE SpeedDenominator * currentTime

\* C1: every voice on the engine whose event lies at or after the commit's
\* position p0 is booked at t0 + LOOKAHEAD + (timestamp - p0) / speed, for the
\* speed in force at the commit.
C1_TranslationLaw == \A v \in engine : v.ts >= v.p0 => TranslationLaw(v)

\* C2: whenever a booked voice starts on the engine, the position shown by the
\* frame loop at that instant is the event's timestamp, up to LOOKAHEAD.  (A run
\* still waiting for its first frame is not held to it.)
C2_AudioVisualSync ==
  \A v \in firedNow :
    (~isPlaying \/ ~Falsy(startTimeRef))
      => Abs(SpeedDenominator * v.ts - VisualPos4(v.time))
           <= SpeedDenominator * LOOKAHEAD

\* C3: within a play run at constant speed, every tick that does not end the run
\* yields fromPosition + elapsed * speed, elapsed counted from the run's first
\* tick.
C3_DriftFree ==
  [][(AnimateStep /\ isPlaying /\ isPlaying' /\ ~speedChanged)
       => SpeedDenominator * currentTime'
            = SpeedDenominator * fromPosition + (now - startTimeRef') * speedRef]_vars

\* C4: the first tick of a run started by play from a paused position p,
\* 0 < p < duration, yields p.
C4_ResumeFromPaused ==
  [][(AnimateStep /\ isPlaying /\ isPlaying' /\ Falsy(startTimeRef)
        /\ 0 < fromPosition /\ fromPosition < durationRef)
       => currentTime' = fromPosition]_vars

\* C5: no event that lies before the position of a commit is booked by it.
C5_NoEventBeforeResume == \A v \in engine : v.ts >= v.p0

\* C6: a voice that starts on the engine belongs to the commitment that is armed:
\* it was booked by the latest commit and no cancel has discarded it since.
C6_CancelDisarms ==
  \A v \in firedNow : v.run = commitNo /\ <<v.id, v.time>> \in scheduledSounds

\* C7: restart, in any state (with an audio engine), leaves position 0 and
\* playing, and exactly one fresh commit made from position 0 at the restart
\* instant is armed: every voice the engine still holds belongs to it.
C7_RestartHygiene ==
  [][(RestartPlayback /\ audioAvailable)
       => /\ currentTime' = 0
          /\ isPlaying'
          /\ commitNo' = commitNo + 1
          /\ \A v \in engine' : v.run = commitNo' /\ v.p0 = 0 /\ v.t0 = now]_vars

\* C8: a speed change while playing does not move the position: a tick at the
\* instant of the change computes the same position before and after it.
C8_SpeedContinuity ==
  [][(SpeedStep /\ isPlaying /\ ~Falsy(startTimeRef))
       => VisualPos4(now)' = VisualPos4(now)]_vars

\* C9: after a speed change while playing, every voice still pending was
\* re-committed at the instant of the change under the new speed and obeys the
\* translation law for it.
C9_SpeedReschedules ==
  [][(SpeedStep /\ isPlaying)
       => \A v \in engine' : v.speed = speed' /\ v.t0 = now /\ TranslationLaw(v)]_vars

\* The tick that reaches the end of the media.
EndTick ==
  /\ AnimateStep
  /\ NewTime(now, IF Falsy(startTimeRef) THEN now ELSE startTimeRef, speedRef)
       >= durationRef

\* C10: the tick that reaches the duration sets the position to the duration,
\* stops playing and requests no further tick, and the position never exceeds
\* the duration of the recording.
C10_EndOfMedia ==
  [][/\ EndTick => (currentTime' = durationRef /\ ~isPlaying' /\ frames' = 0)
     /\ currentTime' <= Recording(data').duration]_vars

\* The end tick alone: position = duration, stopped, no callback left.
C10_EndTickOnly ==
  [][EndTick => (currentTime' = durationRef /\ ~isPlaying' /\ frames' = 0)]_vars

\* C11: while playing, the position never decreases from one tick to the next,
\* whatever pauses, resumes and speed changes happen between the ticks; it goes
\* down only in a restart or a recording change (which set it to 0 themselves).
C11_MonotonicPosition ==
  [][(AnimateStep /\ currentTime <= durationRef) => currentTime' >= currentTime]_vars

\* A step in which scheduleSounds ran.
CommitStep == commitNo' = commitNo + 1

\* C12: a commit never books into the past.  Every voice on the engine, and every
\* voice that fires, was booked strictly later than the engine time of its
\* commit; and a sound whose computed audio time is not later than the engine
\* time of the commit gets no entry in scheduledSounds and no voice.
C12_NoPastBooking ==
  [][/\ \A v \in engine' \cup firedNow' : v.time > v.t0
     /\ CommitStep =>
          \A s \in Range(ToScheduledSounds(Recording(data').rhythmTrack)) :
             (now + LOOKAHEAD) + (s.time - currentTime') <= now
               => /\ \A e \in scheduledSounds' : e[1] # s.id
                  /\ \A v \in engine' : v.run = commitNo' => v.id # s.id]_vars

\* A commit from a position behind a node of the recording has dropped that node
\* and booked a later one.
C12_Witness ==
  /\ isPlaying /\ scheduledRef /\ pendingLoad = "none"
  /\ \E v \in engine : v.run = commitNo
  /\ \E n \in Range(Recording(data).rhythmTrack) :
        /\ n.timestamp + LOOKAHEAD <= vizStartTimeRef
        /\ \A e \in scheduledSounds : e[1] # n.id

\* A start (play pressed while stopped) or a restart.
StartStep == (TogglePlay /\ ~isPlaying) \/ RestartPlayback

\* C13: scheduleSounds is called exactly once per start or restart and in no
\* other step: not by a tick, a re-render, a change of the nodes prop or a
\* speed change.
C13_Idempotence ==
  [][/\ (StartStep /\ audioAvailable) => CommitStep
     /\ ~StartStep => commitNo' = commitNo]_vars

\* The guard alone: while scheduledRef is set no step calls scheduleSounds.
C13_GuardOnly == [][scheduledRef => commitNo' = commitNo]_vars

\* A step after which the commitment armed before it must be gone: a pause, the
\* end of the media, a restart, a recording change (its start and its arrival)
\* or a speed change.
DiscardStep ==
  \/ TogglePlay /\ isPlaying
  \/ EndTick
  \/ RestartPlayback
  \/ \E i \in 0..(Len(ModelCodes) - 1) : LoadModelByIndex(i)
  \/ LoadDone
  \/ SpeedStep

\* C14: scheduledSounds is non-empty only while playing, and every pause, end
\* of media, restart, recording change and speed change discards the commitment
\* that was armed before it (the map is empty afterwards or holds a new commit).
C14_CommitmentLifetime ==
  [][/\ ~isPlaying' => scheduledSounds' = {}
     /\ DiscardStep => (scheduledSounds' = {} \/ CommitStep)]_vars

\* The first half alone: no commitment while stopped.
C14_EmptyWhenStopped == ~isPlaying => scheduledSounds = {}

\* The ids of the nodes of a recording.
NodeIds(code) == {n.id : n \in Range(Recording(code).rhythmTrack)}

\* C15: the armed commitment never holds an event of a recording other than the
\* active one: a recording that becomes active finds the commitment cancelled.
C15_RecordingChangeCancels ==
  \A e \in scheduledSounds : e[1] \in NodeIds(data)

\* The recording a node id belongs to, and whether the node is well-formed:
\* its timestamp lies within [0, duration].
RecordingOf(id) == CHOOSE code \in Range(ModelCodes) : id \in NodeIds(code)
WellFormed(id) ==
  \E n \in Range(Recording(RecordingOf(id)).rhythmTrack) :
     n.id = id /\ 0 <= n.timestamp /\ n.timestamp <= Recording(RecordingOf(id)).duration

\* C16: a node whose timestamp is negative or greater than the duration of its
\* recording is never booked: it has no voice and no entry in scheduledSounds.
C16_MalformedDropped ==
  /\ \A v \in engine \cup firedNow : WellFormed(v.id)
  /\ \A e \in scheduledSounds : WellFormed(e[1])

\* C17: the speed the clock and the scheduler use is strictly positive, also
\* after setSpeed was called with a value <= 0.
C17_SpeedPositive == speed > 0 /\ speedRef > 0 /\ currentSpeed > 0

\* C18: without an AudioContext the audio calls are no-ops that raise nothing:
\* no step lets an exception unmount the player, nothing is booked, and a start
\* or restart leaves the player playing with a frame callback requested, so the
\* visual clock runs.
C18_GracefulDegradation ==
  [][~audioAvailable =>
       /\ ~crashed'
       /\ engine' = {} /\ scheduledSounds' = {}
       /\ StartStep => (isPlaying' /\ frames' > 0)]_vars

\* C19: PRO_SWING_DATA played from position 0 at 1.0x.  The commit books exactly
\* four voices, at 0.5, 0.9, 1.2 and 1.4 s plus the lookahead after the engine
\* time of the commit.  A tick before 2.5 s of elapsed time shows the elapsed
\* time and keeps playing; a tick at or after 2.5 s sets the position to exactly
\* 2.5 s, stops and requests no further tick; and once stopped the player stays
\* stopped at 2.5 s.
C19_EndToEnd ==
  [][/\ CommitStep =>
          /\ scheduledSounds' = { <<"p1", now + LOOKAHEAD + 100>>,
                                  <<"p2", now + LOOKAHEAD + 180>>,
                                  <<"p3", now + LOOKAHEAD + 240>>,
                                  <<"p4", now + LOOKAHEAD + 280>> }
          /\ {<<v.id, v.type, v.time>> : v \in engine'} =
                { <<"p1", "KICK",  now + LOOKAHEAD + 100>>,
                  <<"p2", "BASS",  now + LOOKAHEAD + 180>>,
                  <<"p3", "SNARE", now + LOOKAHEAD + 240>>,
                  <<"p4", "CRASH", now + LOOKAHEAD + 280>> }
          /\ Cardinality(engine') = 4
     /\ (AnimateStep /\ ~Falsy(startTimeRef)) =>
          IF now - startTimeRef >= 500
          THEN currentTime' = 500 /\ ~isPlaying' /\ frames' = 0
          ELSE currentTime' = now - startTimeRef /\ isPlaying' /\ frames' = 1
     /\ (commitNo = 1 /\ ~isPlaying) => (~isPlaying' /\ currentTime' = 500)
     /\ \A v \in firedNow' : now < v.time /\ v.time <= now']_vars

\* The run has ended: stopped at 2.5 s after the one commit, all four voices fired.
C19_Witness ==
  /\ data = "PRO" /\ commitNo = 1 /\ ~isPlaying /\ currentTime = 500
  /\ engine = {} /\ frames = 0

\* The intensity of the node with this id in its recording.
NodeIntensity(id) ==
  LET n == CHOOSE m \in Range(Recording(RecordingOf(id)).rhythmTrack) : m.id = id
  IN  n.intensity

\* C20: a KICK node of intensity I committed through the visualizer sounds with
\* amplitude 0.30 + 0.70 I and base frequency 150 (1 + 0.5 I) Hz (times the
\* pitch shift): 1.0 and 225 Hz for I = 1.0, 0.3 and 150 Hz for I = 0.0.
C20_KickVoice ==
  \A v \in engine \cup firedNow :
     v.type = "KICK" =>
       /\ KickVolume(v.intensity) = 30 + 7 * NodeIntensity(v.id)
       /\ KickBaseFreq(v.intensity) = 300 + 15 * NodeIntensity(v.id)
       /\ NodeIntensity(v.id) = 0 =>
            (KickVolume(v.intensity) = 30 /\ KickBaseFreq(v.intensity) = 300)
       /\ NodeIntensity(v.id) = 10 =>
            (KickVolume(v.intensity) = 100 /\ KickBaseFreq(v.intensity) = 450)

VolumeStep == \E v \in VolumeInputs : HandleVolumeChange(v)

\* v percent as a gain in hundredths, clamped to [0, 1].
Clamped(v) == IF v < 0 THEN 0 ELSE IF v > 100 THEN 100 ELSE v

\* C21: setVolume(v) in any state (before the first play, while playing, while
\* paused) makes the master gain v clamped to [0, 1] and changes neither the
\* commitment, the position, the speed nor the playing flag; and the gain keeps
\* that value until the next setVolume.
C21_MasterVolume ==
  [][/\ \A v \in VolumeInputs :
          HandleVolumeChange(v) =>
            /\ masterGain' = Clamped(v)
            /\ UNCHANGED << scheduledSounds, engine, currentTime, speed, speedRef,
                            currentSpeed, isPlaying >>
     /\ ~VolumeStep => masterGain' = masterGain]_vars

\* The same once the AudioContext exists.
C21_AfterInit ==
  [][audioContext =>
       /\ \A v \in VolumeInputs :
            HandleVolumeChange(v) =>
              /\ masterGain' = Clamped(v)
              /\ UNCHANGED << scheduledSounds, engine, currentTime, speed, speedRef,
                              currentSpeed, isPlaying >>
       /\ ~VolumeStep => masterGain' = masterGain]_vars

\* A recording change starts: loadModelByIndex.
LoadStep == \E i \in 0..(Len(ModelCodes) - 1) : LoadModelByIndex(i)

\* C22: a pause freezes the position.  The pause step keeps the position, stops
\* playing and leaves no frame callback pending; and while stopped no step
\* changes the position, except a restart, a recording change or a fresh mount
\* of the player.
C22_StopFreezes ==
  [][/\ (TogglePlay /\ isPlaying)
          => (~isPlaying' /\ currentTime' = currentTime /\ frames' = 0)
     /\ (~isPlaying /\ AnimateStep) => currentTime' = currentTime
     /\ (~isPlaying /\ ~RestartPlayback /\ ~LoadStep /\ ~ReturnToStudio)
          => currentTime' = currentTime]_vars

\* Paused in the middle of the recording, and the clock has moved on since: a
\* voice started in the last clock step.
C22_Witness ==
  /\ mounted /\ ~isPlaying /\ pendingLoad = "none"
  /\ 0 < currentTime /\ currentTime < durationRef
  /\ firedNow # {}

\* A step of the wall clock.
ClockStep == now' # now

\* C23: soft cancellation.  No pause, restart, cancel or commit removes a voice
\* that has started: only the clock does, and only when the voice has reached
\* the stop time of its own decay.
C23_SoftCancel ==
  [][/\ ~ClockStep => sounding' = sounding
     /\ \A v \in sounding : now' < v.time + Decay(v.type) => v \in sounding']_vars

\* A voice sounds that started before the latest commit was made: a cancel (on
\* the pause) and a commit (with its own clearScheduledSounds) came after its
\* start.
C23_Witness ==
  \E v \in sounding : \E w \in engine : w.run = commitNo /\ w.t0 >= v.time

\* A step in which the scheduling effect calls clearScheduledSounds while
\* nothing is committed: the nodes of a stopped player change, or the player
\* mounts.
CancelOnEmpty ==
  /\ scheduledSounds = {}
  /\ (LoadDone /\ ~isPlaying) \/ ReturnToStudio

\* C24: cancel with nothing committed is a no-op: it raises nothing, the
\* commitment stays empty and the rest of the audio state (pending and sounding
\* voices, context, number of commits) is unchanged, and so are the position
\* and the playing flag of the player whose nodes changed.
C24_CancelNoOp ==
  [][CancelOnEmpty =>
       /\ scheduledSounds' = {}
       /\ ~crashed'
       /\ UNCHANGED << engine, sounding, audioContext, contextsCreated, commitNo,
                       frames >>
       /\ LoadDone => UNCHANGED << isPlaying, currentTime, masterGain >>]_vars

\* The other recording has arrived in a stopped player whose audio was never
\* initialised: the effect has called clearScheduledSounds on the empty map.
C24_Witness ==
  /\ mounted /\ ~crashed /\ ~isPlaying /\ pendingLoad = "none"
  /\ data = ModelCodes[2]
  /\ ~audioContext /\ scheduledSounds = {}

\* C25: a commit on an empty list of sounds is a no-op that raises nothing:
\* from every position, a start with an audio engine calls scheduleSounds, which
\* books no voice and records nothing in the commitment, and playback runs.
C25_EmptyCommit ==
  [][/\ (StartStep /\ ~isPlaying /\ audioAvailable) => CommitStep
     /\ CommitStep =>
          /\ scheduledSounds' = {} /\ engine' = {} /\ sounding' = {}
          /\ ~crashed' /\ audioContext'
          /\ isPlaying' /\ frames' = 1]_vars

\* A second commit of the empty recording, made from a position past 0.
C25_Witness ==
  /\ data = "EMPTY" /\ isPlaying /\ scheduledRef /\ ~crashed
  /\ commitNo >= 2 /\ vizStartTimeRef > 0
  /\ scheduledSounds = {} /\ engine = {}

\* C26: at most one armed booking per event. For every sequence of play, pause,
\* restart and visualizer switches the audio engine never holds two voices that
\* have not fired yet for the same event id.
C26_OneBookingPerEvent ==
  \A v \in engine : \A w \in engine : v.id = w.id => v = w

\* Play is pressed after the end of media: paused, with the position at the
\* duration of the recording shown, no load in flight.
PlayAtEnd ==
  /\ TogglePlay /\ ~isPlaying
  /\ audioAvailable /\ pendingLoad = "none"
  /\ currentTime = Recording(data).duration

\* C27: no silent pass.  Every event whose timestamp the position passes in a
\* tick of a run has an entry in the run's commitment; and play pressed at the
\* end of media starts a run in which every event of the recording is booked.
C27_NoSilentPass ==
  [][/\ PlayAtEnd =>
          \A id \in NodeIds(data) : \E e \in scheduledSounds' : e[1] = id
     /\ (AnimateStep /\ isPlaying /\ audioAvailable /\ pendingLoad = "none") =>
          \A n \in Range(Recording(data).rhythmTrack) :
             (currentTime < n.timestamp /\ n.timestamp <= currentTime') =>
                \E e \in scheduledSounds : e[1] = n.id]_vars

\* C28: leaving the player cancels.  Once Studio has been left while playing
\* (it is unmounted, its last isPlaying was true) scheduledSounds is empty and no
\* voice of the run that was playing fires.
C28_LeavingCancels ==
  (~mounted /\ isPlaying) =>
     /\ scheduledSounds = {}
     /\ \A v \in firedNow : v.run # commitNo

\* C29: single frame loop.  At most one animation-frame callback of the
\* playback loop is pending, and none is pending once a render with playing
\* false has run its effects.
C29_SingleFrameLoop ==
  /\ frames <= 1
  /\ ~isPlaying => frames = 0

\* Playback runs with one pending callback after at least three commands and a
\* second start, at a position past 0.
C29_Witness ==
  /\ isPlaying /\ mounted /\ ~crashed
  /\ frames = 1 /\ commands >= 3 /\ commitNo >= 2 /\ currentTime > 0

\* C30: audio initialisation happens once and never resets the volume.  At most
\* one AudioContext with its master gain is ever created, and once it exists the
\* master gain changes only in a setVolume step: no commit, cancel or setSpeed
\* puts it back to the default.
C30_InitOnce ==
  [][/\ contextsCreated' <= 1
     /\ (audioContext /\ ~VolumeStep) => masterGain' = masterGain]_vars

\* A second commit has been made with the gain set by setVolume to a value other
\* than the default.
C30_Witness ==
  /\ contextsCreated = 1 /\ audioContext
  /\ masterGain # Undefined /\ masterGain # DefaultGain
  /\ commitNo >= 2 /\ isPlaying /\ scheduledSounds # {}
====
